---- MODULE Spec2Model ----
(***************************************************************************)
(* Model of the bootcamp controllers of devcamper_API                      *)
(* (src/controllers/bootcamps.js) and of the process-level rejection       *)
(* handler of the server (src/unnamed/part_001).                           *)
(*                                                                         *)
(* Strings whose characters matter to the code (query keys and values,     *)
(* MIME types, file names) are sequences of one-character strings.         *)
(***************************************************************************)
EXTENDS Integers, Sequences, FiniteSets, TLC

\* ------------------------------------------------------------------------
\* Bounds
\* ------------------------------------------------------------------------
\* number of requests issued in one behaviour of Spec
MaxReqs == 2
\* largest identifier the store hands out in Spec
MaxId == 2
\* largest number of stored records in an initial store of SpecList
MaxDocs == 3

\* ------------------------------------------------------------------------
\* Characters and strings
\* ------------------------------------------------------------------------
Digits == <<"0", "1", "2", "3", "4", "5", "6", "7", "8", "9">>

Letters == {"a", "b", "c", "d", "e", "f", "g", "h", "i", "j", "k", "l", "m",
            "n", "o", "p", "q", "r", "s", "t", "u", "v", "w", "x", "y", "z"}

IsDigit(c) == \E k \in 1..10 : Digits[k] = c

DigitVal(c) == (CHOOSE k \in 1..10 : Digits[k] = c) - 1

\* the regular expression class \w
IsWordChar(c) == c \in Letters \/ IsDigit(c) \/ c = "_"

StartsWith(s, p) == Len(s) >= Len(p) /\ SubSeq(s, 1, Len(p)) = p

\* an optional string: a query parameter that may be undefined
Some(s) == [some |-> TRUE, val |-> s]
Absent == [some |-> FALSE, val |-> <<>>]

\* a JavaScript number that may be NaN
Num(n) == [nan |-> FALSE, n |-> n]
NaN == [nan |-> TRUE, n |-> 0]

\* length of the longest prefix of s[i..] made of digits
RECURSIVE DigitRun(_, _)
DigitRun(s, i) ==
    IF i <= Len(s) /\ IsDigit(s[i]) THEN 1 + DigitRun(s, i + 1) ELSE 0

RECURSIVE DigitsValue(_, _, _)
DigitsValue(s, i, n) ==
    IF n = 0 THEN 0
    ELSE 10 * DigitsValue(s, i, n - 1) + DigitVal(s[i + n - 1])

\* parseInt(v, 10): optional sign, then the longest run of digits; anything
\* after the run is ignored; no digit at all (or an absent value) gives NaN
parseInt(o) ==
    IF ~o.some THEN NaN
    ELSE LET v   == o.val
             neg == Len(v) >= 1 /\ v[1] = "-"
             pos == Len(v) >= 1 /\ v[1] = "+"
             st  == IF neg \/ pos THEN 2 ELSE 1
             n   == DigitRun(v, st)
         IN IF n = 0 THEN NaN
            ELSE IF neg THEN Num(0 - DigitsValue(v, st, n))
                 ELSE Num(DigitsValue(v, st, n))

\* JavaScript `x || d` for a number x: NaN and 0 are falsy
OrDefault(x, d) == IF x.nan \/ x.n = 0 THEN d ELSE x.n

\* Number(v), the cast the persistence client applies to a numeric field:
\* the whole string must be a number
ToNumber(v) ==
    LET neg == Len(v) >= 1 /\ v[1] = "-"
        st  == IF neg THEN 2 ELSE 1
        n   == DigitRun(v, st)
    IN IF n = 0 \/ st + n - 1 # Len(v) THEN NaN
       ELSE IF neg THEN Num(0 - DigitsValue(v, st, n))
            ELSE Num(DigitsValue(v, st, n))

\* ------------------------------------------------------------------------
\* req.query: a sequence of <<key, value>> pairs in insertion order, keys
\* distinct.  A value is a plain string [nested |-> FALSE, val |-> s] or
\* the object the query-string parser builds for key[op]=s,
\* [nested |-> TRUE, op |-> o, val |-> s].
\* ------------------------------------------------------------------------
Plain(s) == [nested |-> FALSE, op |-> <<>>, val |-> s]
Nested(o, s) == [nested |-> TRUE, op |-> o, val |-> s]

\* String(v) of an object value
ObjectString == <<"[", "o", "b", "j", "e", "c", "t", " ",
                  "O", "b", "j", "e", "c", "t", "]">>

HasKey(q, k) == \E i \in 1..Len(q) : q[i][1] = k

Lookup(q, k) ==
    IF HasKey(q, k)
    THEN LET i == CHOOSE j \in 1..Len(q) : q[j][1] = k
         IN IF q[i][2].nested THEN Some(ObjectString)
            ELSE Some(q[i][2].val)
    ELSE Absent

kSelect == <<"s", "e", "l", "e", "c", "t">>
kSort == <<"s", "o", "r", "t">>
kPage == <<"p", "a", "g", "e">>
kLimit == <<"l", "i", "m", "i", "t">>

removeFields == {kSelect, kSort, kPage, kLimit}

RECURSIVE DeleteKeys(_, _)
DeleteKeys(q, ks) ==
    IF q = <<>> THEN <<>>
    ELSE IF Head(q)[1] \in ks THEN DeleteKeys(Tail(q), ks)
         ELSE <<Head(q)>> \o DeleteKeys(Tail(q), ks)

Quote(s) == <<"\"">> \o s \o <<"\"">>

StringifyValue(v) ==
    IF v.nested
    THEN <<"{">> \o Quote(v.op) \o <<":">> \o Quote(v.val) \o <<"}">>
    ELSE Quote(v.val)

RECURSIVE StringifyEntries(_)
StringifyEntries(q) ==
    IF q = <<>> THEN <<>>
    ELSE Quote(Head(q)[1]) \o <<":">> \o StringifyValue(Head(q)[2])
         \o (IF Tail(q) = <<>> THEN <<>> ELSE <<",">>)
         \o StringifyEntries(Tail(q))

\* JSON.stringify of an object of the shape above (the strings of the
\* model hold no quote and no backslash, so nothing is escaped)
JSONStringify(q) == <<"{">> \o StringifyEntries(q) \o <<"}">>

OpWords == { <<"g", "t">>, <<"g", "t", "e">>, <<"l", "t">>,
             <<"l", "t", "e">>, <<"i", "n">> }

RECURSIVE WordRun(_, _)
WordRun(s, i) ==
    IF i <= Len(s) /\ IsWordChar(s[i]) THEN 1 + WordRun(s, i + 1) ELSE 0

\* str.replace(/\b(gt|gte|lt|lte|in)\b/g, match => '$' + match): a match is
\* a maximal run of word characters that is one of the operator words
RECURSIVE ReplaceOps(_, _)
ReplaceOps(s, i) ==
    IF i > Len(s) THEN <<>>
    ELSE IF IsWordChar(s[i])
         THEN LET n == WordRun(s, i)
                  w == SubSeq(s, i, i + n - 1)
              IN (IF w \in OpWords THEN <<"$">> ELSE <<>>) \o w
                 \o ReplaceOps(s, i + n)
         ELSE <<s[i]>> \o ReplaceOps(s, i + 1)

\* index of the next quote at or after i (0 when there is none)
RECURSIVE NextQuote(_, _)
NextQuote(s, i) ==
    IF i > Len(s) THEN 0
    ELSE IF s[i] = "\"" THEN i ELSE NextQuote(s, i + 1)

\* tokens of a JSON text: string literals and structural characters
RECURSIVE Tokens(_, _)
Tokens(s, i) ==
    IF i > Len(s) THEN <<>>
    ELSE IF s[i] = "\""
         THEN LET j == NextQuote(s, i + 1)
              IN <<[str |-> TRUE, v |-> SubSeq(s, i + 1, j - 1)]>>
                 \o Tokens(s, j + 1)
         ELSE <<[str |-> FALSE, v |-> <<s[i]>>]>> \o Tokens(s, i + 1)

Punct(t, c) == ~t.str /\ t.v = <<c>>

\* entries of an object whose members are "k":"v" or "k":{"o":"v"}
RECURSIVE ParseEntries(_, _)
ParseEntries(t, i) ==
    IF i > Len(t) \/ Punct(t[i], "}") THEN <<>>
    ELSE IF Punct(t[i], ",") THEN ParseEntries(t, i + 1)
         ELSE IF Punct(t[i + 2], "{")
              THEN << <<t[i].v, Nested(t[i + 3].v, t[i + 5].v)>> >>
                   \o ParseEntries(t, i + 7)
              ELSE << <<t[i].v, Plain(t[i + 2].v)>> >>
                   \o ParseEntries(t, i + 3)

JSONParse(s) == ParseEntries(Tokens(s, 1), 2)

\* the filter handed to Bootcamp.find
BuildFilter(query) ==
    LET reqQuery == DeleteKeys(query, removeFields)
        queryStr == JSONStringify(reqQuery)
    IN JSONParse(ReplaceOps(queryStr, 1))

\* ------------------------------------------------------------------------
\* The persistence client (the document store behind the Bootcamp model).
\* A record carries the fields the handlers read or write: photo, a numeric
\* field cost that filters and sorts apply to, and a position for the radius
\* search.  The populated courses relation is not part of the model.
\* ------------------------------------------------------------------------
VARIABLES
    store,      \* identifier -> stored record, for the records that exist
    nextId,     \* identifier the next created record gets
    files,      \* names of the files written to FILE_UPLOAD_PATH
    reqs,       \* the requests received so far, each with its handler state
    serverUp    \* FALSE once the unhandledRejection handler closed the server

vars == <<store, nextId, files, reqs, serverUp>>

fCost == <<"c", "o", "s", "t">>
fPhoto == <<"p", "h", "o", "t", "o">>
fCreatedAt == <<"c", "r", "e", "a", "t", "e", "d", "A", "t">>

DefaultPhoto == <<"no-photo.jpg">>

\* a document as the client returns it
Doc(id) == [found |-> TRUE, id |-> id, photo |-> store[id].photo,
            cost |-> store[id].cost, pos |-> store[id].pos]
NoDoc == [found |-> FALSE, id |-> 0, photo |-> <<>>, cost |-> 0, pos |-> 0]

findById(id) == IF id \in DOMAIN store THEN Doc(id) ELSE NoDoc

Compare(op, a, b) ==
    IF op = <<"$", "g", "t">> THEN a > b
    ELSE IF op = <<"$", "g", "t", "e">> THEN a >= b
    ELSE IF op = <<"$", "l", "t">> THEN a < b
    ELSE IF op = <<"$", "l", "t", "e">> THEN a <= b
    ELSE a = b       \* $in with a single value

DollarOps == { <<"$">> \o w : w \in OpWords }

\* one member of a filter is rejected by the client: an unknown top-level
\* operator, an operator the numeric field does not know, or a value that
\* does not cast to the field's type
EntryFails(e) ==
    \/ Len(e[1]) >= 1 /\ e[1][1] = "$"
    \/ /\ e[1] = fCost
       /\ \/ e[2].nested /\ e[2].op \notin DollarOps
          \/ ToNumber(e[2].val).nan

EntryMatches(d, e) ==
    /\ e[1] = fCost
    /\ IF e[2].nested THEN Compare(e[2].op, d.cost, ToNumber(e[2].val).n)
       ELSE d.cost = ToNumber(e[2].val).n

FilterFails(filter) == \E k \in 1..Len(filter) : EntryFails(filter[k])

Matching(filter) ==
    { id \in DOMAIN store :
        \A k \in 1..Len(filter) : EntryMatches(Doc(id), filter[k]) }

countDocuments == Cardinality(DOMAIN store)

\* sort key of a record under query.sort(sortBy); createdAt grows with the
\* identifier; a field the schema does not have sorts nothing
SortField(sortBy) ==
    IF Len(sortBy) >= 1 /\ sortBy[1] = "-" THEN Tail(sortBy) ELSE sortBy

SortKey(id, sortBy) ==
    LET f == SortField(sortBy)
        k == IF f = fCost THEN store[id].cost
             ELSE IF f = fCreatedAt THEN id ELSE 0
    IN IF Len(sortBy) >= 1 /\ sortBy[1] = "-" THEN 0 - k ELSE k

\* the identifiers of S ordered by sort key, ties in insertion order
RECURSIVE Sorted(_, _)
Sorted(S, sortBy) ==
    IF S = {} THEN <<>>
    ELSE LET m == CHOOSE x \in S : \A y \in S :
                    \/ SortKey(x, sortBy) < SortKey(y, sortBy)
                    \/ SortKey(x, sortBy) = SortKey(y, sortBy) /\ x <= y
         IN <<m>> \o Sorted(S \ {m}, sortBy)

Abs(n) == IF n < 0 THEN 0 - n ELSE n
Min(a, b) == IF a < b THEN a ELSE b

\* query.skip(startIndex).limit(limit); the store reads a negative limit
\* as its absolute value
Window(seq, startIndex, limit) ==
    SubSeq(seq, startIndex + 1, Min(Len(seq), startIndex + Abs(limit)))

\* req.query.select.split(',').join(' '), read by the client as the list
\* of fields to return
RECURSIVE SplitComma(_, _)
SplitComma(s, acc) ==
    IF s = <<>> THEN {acc}
    ELSE IF Head(s) = "," THEN {acc} \cup SplitComma(Tail(s), <<>>)
         ELSE SplitComma(Tail(s), Append(acc, Head(s)))

SelectFields(select) ==
    IF select.some /\ select.val # <<>> THEN SplitComma(select.val, <<>>)
    ELSE {fCost, fPhoto}

Project(d, fields) ==
    [d EXCEPT !.photo = IF fPhoto \in fields THEN @ ELSE <<>>,
              !.cost = IF fCost \in fields THEN @ ELSE 0,
              !.pos = 0]

\* the list query as executed: filter, sort, window, projection
ExecFails(filter, startIndex) == FilterFails(filter) \/ startIndex < 0

ExecQuery(filter, sortBy, startIndex, limit, fields) ==
    LET w == Window(Sorted(Matching(filter), sortBy), startIndex, limit)
    IN [k \in 1..Len(w) |-> Project(Doc(w[k]), fields)]

\* ------------------------------------------------------------------------
\* Requests and the two ways a handler ends: a response or a forwarded error
\* ------------------------------------------------------------------------
\* the local `bootcamp` of a handler before its lookup has returned
Unset == [found |-> FALSE, id |-> 0 - 1, photo |-> <<>>, cost |-> 0, pos |-> 0]

NoBody == [setPhoto |-> FALSE, photo |-> <<>>, setCost |-> FALSE, cost |-> 0]
NoFiles == [attached |-> "none", mimetype |-> <<>>, size |-> 0, name |-> <<>>]

NewReq(kind, id, body, file, query, distance) ==
    [kind |-> kind, id |-> id, body |-> body, file |-> file, query |-> query,
     distance |-> distance, pc |-> "start", bootcamp |-> Unset,
     filter |-> <<>>, sortBy |-> <<>>, fields |-> {}, page |-> 0, limit |-> 0,
     total |-> 0, center |-> 0, fname |-> <<>>, res |-> <<>>, err |-> <<>>,
     rej |-> 0, seenDel |-> {}]

\* new ErrorResponse(message, statusCode)
ErrorResponse(message, statusCode) ==
    [message |-> message, statusCode |-> statusCode]

\* an error thrown by a collaborator or by the runtime: no statusCode
Thrown(name) == [message |-> <<name>>, statusCode |-> 0]

NotFoundMsg(id) == <<"Bootcamp not found with id of ", ToString(id)>>

\* res.status(status).json(body)
json(r, status, body) ==
    [r EXCEPT !.res = Append(@, [status |-> status, body |-> body]),
              !.pc = "done"]

\* next(error)
next(r, error) == [r EXCEPT !.err = Append(@, error), !.pc = "done"]

\* asyncHandler: a rejection of the handler's promise goes to next
asyncHandler(r, error) == next(r, error)

\* process.on('unhandledRejection'): log, close the server, exit
unhandledRejection(r) == [r EXCEPT !.rej = @ + 1, !.pc = "done"]

\* ------------------------------------------------------------------------
\* getBootcamps
\* ------------------------------------------------------------------------
DefaultSort == <<"-">> \o fCreatedAt

\* variant: the next page is offered when the window ends exactly at total
PaginationResult_mut(page, limit, total) ==
    LET startIndex == (page - 1) * limit
        endIndex == page * limit
        keys == (IF endIndex <= total THEN {"next"} ELSE {})
                \cup (IF startIndex > 0 THEN {"prev"} ELSE {})
    IN [k \in keys |->
          IF k = "next" THEN [page |-> page + 1, limit |-> limit]
          ELSE [page |-> page - 1, limit |-> limit]]

PaginationResult(page, limit, total) ==
    LET startIndex == (page - 1) * limit
        endIndex == page * limit
        keys == (IF endIndex < total THEN {"next"} ELSE {})
                \cup (IF startIndex > 0 THEN {"prev"} ELSE {})
    IN [k \in keys |->
          IF k = "next" THEN [page |-> page + 1, limit |-> limit]
          ELSE [page |-> page - 1, limit |-> limit]]

\* lines 11-45: build the filter, the projection, the sort and the window,
\* then await the count
ListCount(i) ==
    LET r == reqs[i]
        sort == Lookup(r.query, kSort)
        r1 == [r EXCEPT
                 !.filter = BuildFilter(r.query),
                 !.fields = SelectFields(Lookup(r.query, kSelect)),
                 !.sortBy = IF sort.some /\ sort.val # <<>> THEN sort.val
                            ELSE DefaultSort,
                 !.page = OrDefault(parseInt(Lookup(r.query, kPage)), 1),
                 !.limit = OrDefault(parseInt(Lookup(r.query, kLimit)), 100)]
    IN /\ r.kind = "list" /\ r.pc = "start"
       /\ \E ok \in BOOLEAN :
            reqs' = [reqs EXCEPT ![i] =
                       IF ok THEN [r1 EXCEPT !.total = countDocuments,
                                             !.pc = "query"]
                       ELSE asyncHandler(r1, Thrown("MongoError"))]
       /\ UNCHANGED <<store, nextId, files, serverUp>>

\* lines 47-76: await the query, build the pagination result, respond
ListFetch(i) ==
    LET r == reqs[i]
        startIndex == (r.page - 1) * r.limit
    IN /\ r.kind = "list" /\ r.pc = "query"
       /\ \E ok \in BOOLEAN :
            reqs' = [reqs EXCEPT ![i] =
                       IF ok /\ ~ExecFails(r.filter, startIndex)
                       THEN LET bootcamps == ExecQuery(r.filter, r.sortBy,
                                               startIndex, r.limit, r.fields)
                            IN json(r, 200,
                                 [success |-> TRUE,
                                  count |-> Len(bootcamps),
                                  pagination |->
                                     PaginationResult(r.page, r.limit, r.total),
                                  data |-> bootcamps])
                       ELSE asyncHandler(r, Thrown("MongoError"))]
       /\ UNCHANGED <<store, nextId, files, serverUp>>

\* ------------------------------------------------------------------------
\* getBootcamp, createBootcamp, updateBootcamp, deleteBootcamp
\* ------------------------------------------------------------------------
getBootcamp(i) ==
    LET r == reqs[i]
        b == findById(r.id)
        r1 == [r EXCEPT !.bootcamp = b]
    IN /\ r.kind = "get" /\ r.pc = "start"
       /\ \E ok \in BOOLEAN :
            reqs' = [reqs EXCEPT ![i] =
                       IF ~ok THEN asyncHandler(r, Thrown("MongoError"))
                       ELSE IF ~b.found
                            THEN next(r1, ErrorResponse(NotFoundMsg(r.id), 404))
                            ELSE json(r1, 200, [success |-> TRUE, data |-> b])]
       /\ UNCHANGED <<store, nextId, files, serverUp>>

\* the stored record a body makes of a record
Merge(rec, body) ==
    [rec EXCEPT !.photo = IF body.setPhoto THEN body.photo ELSE @,
                !.cost = IF body.setCost THEN body.cost ELSE @]

NewRecord == [photo |-> DefaultPhoto, cost |-> 1, pos |-> 0]

createBootcamp(i) ==
    LET r == reqs[i]
    IN /\ r.kind = "create" /\ r.pc = "start"
       /\ nextId <= MaxId
       /\ \/ /\ store' = [id \in DOMAIN store \cup {nextId} |->
                            IF id = nextId THEN Merge(NewRecord, r.body)
                            ELSE store[id]]
             /\ nextId' = nextId + 1
             /\ reqs' = [reqs EXCEPT ![i] =
                  json([r EXCEPT !.bootcamp =
                          [found |-> TRUE, id |-> nextId,
                           photo |-> store'[nextId].photo,
                           cost |-> store'[nextId].cost,
                           pos |-> store'[nextId].pos]],
                       201,
                       [sucess |-> TRUE,
                        data |-> [found |-> TRUE, id |-> nextId,
                                  photo |-> store'[nextId].photo,
                                  cost |-> store'[nextId].cost,
                                  pos |-> store'[nextId].pos]])]
          \/ /\ reqs' = [reqs EXCEPT ![i] =
                           asyncHandler(r, Thrown("ValidationError"))]
             /\ UNCHANGED <<store, nextId>>
       /\ UNCHANGED <<files, serverUp>>

\* variant: the update is an upsert, a missing record is created
updateBootcamp_mut(i) ==
    LET r == reqs[i]
    IN /\ r.kind = "update" /\ r.pc = "start"
       /\ \/ /\ store' = [id \in DOMAIN store \cup {r.id} |->
                            IF id = r.id
                            THEN Merge(IF id \in DOMAIN store THEN store[id]
                                       ELSE NewRecord, r.body)
                            ELSE store[id]]
             /\ LET b == [found |-> TRUE, id |-> r.id,
                          photo |-> store'[r.id].photo,
                          cost |-> store'[r.id].cost,
                          pos |-> store'[r.id].pos]
                IN reqs' = [reqs EXCEPT ![i] =
                              json([r EXCEPT !.bootcamp =
                                      IF r.id \in DOMAIN store THEN b
                                      ELSE NoDoc],
                                   200, [success |-> TRUE, data |-> b])]
          \/ /\ reqs' = [reqs EXCEPT ![i] =
                           asyncHandler(r, Thrown("ValidationError"))]
             /\ UNCHANGED store
       /\ UNCHANGED <<nextId, files, serverUp>>

updateBootcamp(i) ==
    LET r == reqs[i]
    IN /\ r.kind = "update" /\ r.pc = "start"
       /\ \/ /\ r.id \in DOMAIN store
             /\ store' = [store EXCEPT ![r.id] = Merge(@, r.body)]
             /\ LET b == [found |-> TRUE, id |-> r.id,
                          photo |-> store'[r.id].photo,
                          cost |-> store'[r.id].cost,
                          pos |-> store'[r.id].pos]
                IN reqs' = [reqs EXCEPT ![i] =
                              json([r EXCEPT !.bootcamp = b], 200,
                                   [success |-> TRUE, data |-> b])]
          \/ /\ r.id \notin DOMAIN store
             /\ reqs' = [reqs EXCEPT ![i] =
                           next([r EXCEPT !.bootcamp = NoDoc],
                                ErrorResponse(NotFoundMsg(r.id), 404))]
             /\ UNCHANGED store
          \/ /\ reqs' = [reqs EXCEPT ![i] =
                           asyncHandler(r, Thrown("ValidationError"))]
             /\ UNCHANGED store
       /\ UNCHANGED <<nextId, files, serverUp>>

\* lines 130-141: the lookup, then remove() is started and not awaited and
\* the response is sent
deleteBootcamp(i) ==
    LET r == reqs[i]
        b == findById(r.id)
        r1 == [r EXCEPT !.bootcamp = b]
    IN /\ r.kind = "delete" /\ r.pc = "start"
       /\ \E ok \in BOOLEAN :
            reqs' = [reqs EXCEPT ![i] =
                       IF ~ok THEN asyncHandler(r, Thrown("MongoError"))
                       ELSE IF ~b.found
                            THEN next(r1, ErrorResponse(NotFoundMsg(r.id), 404))
                            ELSE [json(r1, 200, [success |-> TRUE,
                                                 data |-> "{}"])
                                    EXCEPT !.pc = "removing"]]
       /\ UNCHANGED <<store, nextId, files, serverUp>>

\* line 136: the remove started by deleteBootcamp settles; nobody holds its
\* promise, so a rejection reaches the unhandledRejection handler
removeSettles(i) ==
    LET r == reqs[i]
    IN /\ r.kind = "delete" /\ r.pc = "removing"
       /\ \/ /\ store' = [id \in DOMAIN store \ {r.id} |-> store[id]]
             /\ reqs' = [reqs EXCEPT ![i].pc = "done"]
             /\ UNCHANGED serverUp
          \/ /\ reqs' = [reqs EXCEPT ![i] = unhandledRejection(r)]
             /\ serverUp' = FALSE
             /\ UNCHANGED store
       /\ UNCHANGED <<nextId, files>>

\* ------------------------------------------------------------------------
\* getBootcampsInRadius
\* ------------------------------------------------------------------------
EarthRadius == 3963

\* position the geocoder resolves the zipcode to
ZipPos == 0

\* lines 149-154: await the geocoder and read loc[0]
radiusGeocode(i) ==
    LET r == reqs[i]
    IN /\ r.kind = "radius" /\ r.pc = "start"
       /\ \E loc \in {"rejected", "empty", "found"} :
            reqs' = [reqs EXCEPT ![i] =
                       IF loc = "rejected"
                       THEN asyncHandler(r, Thrown("GeocoderError"))
                       ELSE IF loc = "empty"
                            THEN asyncHandler(r, Thrown("TypeError"))
                            ELSE [r EXCEPT !.center = ZipPos, !.pc = "find"]]
       /\ UNCHANGED <<store, nextId, files, serverUp>>

\* $geoWithin $centerSphere with radius = distance / 3963: angles are kept
\* as fractions over the earth radius and compared by cross-multiplication
WithinRadius(id, center, distance) ==
    Abs(store[id].pos - center) * EarthRadius <= distance * EarthRadius

\* lines 159-174
radiusFind(i) ==
    LET r == reqs[i]
        hit == Sorted({id \in DOMAIN store :
                          WithinRadius(id, r.center, r.distance)}, fCreatedAt)
        bootcamps == [k \in 1..Len(hit) |-> Doc(hit[k])]
    IN /\ r.kind = "radius" /\ r.pc = "find"
       /\ \E ok \in BOOLEAN :
            reqs' = [reqs EXCEPT ![i] =
                       IF ok THEN json(r, 200, [success |-> TRUE,
                                                count |-> Len(bootcamps),
                                                data |-> bootcamps])
                       ELSE asyncHandler(r, Thrown("MongoError"))]
       /\ UNCHANGED <<store, nextId, files, serverUp>>

\* ------------------------------------------------------------------------
\* bootcampPhotoUpload
\* ------------------------------------------------------------------------
\* process.env.MAX_FILE_UPLOAD, in the size unit of the model
MAX_FILE_UPLOAD == 2

RECURSIVE LastDot(_, _)
LastDot(s, i) ==
    IF i = 0 THEN 0 ELSE IF s[i] = "." THEN i ELSE LastDot(s, i - 1)

\* path.parse(name).ext for a name without directories
Ext(name) ==
    LET d == LastDot(name, Len(name))
    IN IF d <= 1 THEN <<>> ELSE SubSeq(name, d, Len(name))

mImage == <<"i", "m", "a", "g", "e">>

\* `!file.size > process.env.MAX_FILE_UPLOAD`: the negation binds first, and
\* the boolean it gives is compared as the number 1 or 0
SizeCheck(size) == (IF size = 0 THEN 1 ELSE 0) > MAX_FILE_UPLOAD

PhotoName(id, name) == <<"photo_", ToString(id)>> \o Ext(name)

\* lines 180-206: lookup, the checks, the generated name, the call of file.mv
uploadFind(i) ==
    LET r == reqs[i]
        b == findById(r.id)
        r1 == [r EXCEPT !.bootcamp = b]
    IN /\ r.kind = "upload" /\ r.pc = "start"
       /\ \E ok \in BOOLEAN :
            reqs' = [reqs EXCEPT ![i] =
               IF ~ok THEN asyncHandler(r, Thrown("MongoError"))
               ELSE IF ~b.found
               THEN next(r1, ErrorResponse(NotFoundMsg(r.id), 404))
               ELSE IF r.file.attached = "none"
               THEN next(r1, ErrorResponse(<<"Please upload a file">>, 400))
               ELSE IF r.file.attached = "other"
               THEN asyncHandler(r1, Thrown("TypeError"))
               ELSE IF ~StartsWith(r.file.mimetype, mImage)
               THEN next(r1, ErrorResponse(<<"Please upload an image">>, 400))
               ELSE IF SizeCheck(r.file.size)
               THEN next(r1, ErrorResponse(
                        <<"Please upload an image smaller than ",
                          ToString(MAX_FILE_UPLOAD)>>, 400))
               ELSE [r1 EXCEPT !.fname = PhotoName(b.id, r.file.name),
                               !.pc = "mv"]]
       /\ UNCHANGED <<store, nextId, files, serverUp>>

\* variant: the callback does not return after forwarding the storage error
uploadMv_mut(i) ==
    LET r == reqs[i]
    IN /\ r.kind = "upload" /\ r.pc = "mv"
       /\ \/ /\ reqs' = [reqs EXCEPT ![i] =
                  [next(r, ErrorResponse(<<"Problem with file upload">>, 500))
                     EXCEPT !.pc = "update"]]
             /\ UNCHANGED files
          \/ /\ files' = files \cup {r.fname}
             /\ reqs' = [reqs EXCEPT ![i].pc = "update"]
       /\ UNCHANGED <<store, nextId, serverUp>>

\* lines 206-210: file.mv calls back, with an error or after the write
uploadMv(i) ==
    LET r == reqs[i]
    IN /\ r.kind = "upload" /\ r.pc = "mv"
       /\ \/ /\ reqs' = [reqs EXCEPT ![i] =
                  next(r, ErrorResponse(<<"Problem with file upload">>, 500))]
             /\ UNCHANGED files
          \/ /\ files' = files \cup {r.fname}
             /\ reqs' = [reqs EXCEPT ![i].pc = "update"]
       /\ UNCHANGED <<store, nextId, serverUp>>

\* lines 212-217: inside the async callback of file.mv, await the update and
\* respond; a rejection of the update rejects the callback's promise, which
\* nobody holds
uploadUpdate(i) ==
    LET r == reqs[i]
    IN /\ r.kind = "upload" /\ r.pc = "update"
       /\ \/ /\ store' = [id \in DOMAIN store |->
                            IF id = r.id THEN [store[id] EXCEPT !.photo = r.fname]
                            ELSE store[id]]
             /\ reqs' = [reqs EXCEPT ![i] =
                           json(r, 200, [success |-> TRUE, data |-> r.fname])]
             /\ UNCHANGED serverUp
          \/ /\ reqs' = [reqs EXCEPT ![i] = unhandledRejection(r)]
             /\ serverUp' = FALSE
             /\ UNCHANGED store
       /\ UNCHANGED <<nextId, files>>

\* ------------------------------------------------------------------------
\* Requests the router dispatches
\* ------------------------------------------------------------------------
Ids == 1..MaxId

Bodies == { [setPhoto |-> FALSE, photo |-> <<>>, setCost |-> TRUE, cost |-> 2],
            [setPhoto |-> TRUE, photo |-> <<"custom.png">>,
             setCost |-> FALSE, cost |-> 0] }

mPng == <<"i", "m", "a", "g", "e", "/", "p", "n", "g">>
mText == <<"t", "e", "x", "t", "/", "p", "l", "a", "i", "n">>
nPng == <<"a", ".", "p", "n", "g">>
nBare == <<"n", "o", "t", "e", "s">>

UploadFiles ==
    { NoFiles,
      [attached |-> "other", mimetype |-> <<>>, size |-> 0, name |-> <<>>],
      [attached |-> "file", mimetype |-> mPng, size |-> 1, name |-> nPng],
      [attached |-> "file", mimetype |-> mPng, size |-> 3, name |-> nPng],
      [attached |-> "file", mimetype |-> mPng, size |-> 0, name |-> nBare],
      [attached |-> "file", mimetype |-> mText, size |-> 1, name |-> nBare] }

Distances == {5, 20}

sGte == <<"g", "t", "e">>

Queries ==
    { <<>>,
      << <<fCost, Nested(sGte, <<"2">>)>>, <<kPage, Plain(<<"1">>)>>,
         <<kLimit, Plain(<<"1">>)>> >> }

Requests ==
    {NewReq("get", id, NoBody, NoFiles, <<>>, 0) : id \in Ids}
    \cup {NewReq("create", 0, b, NoFiles, <<>>, 0) : b \in Bodies}
    \cup {NewReq("update", id, b, NoFiles, <<>>, 0) : id \in Ids, b \in Bodies}
    \cup {NewReq("delete", id, NoBody, NoFiles, <<>>, 0) : id \in Ids}
    \cup {NewReq("radius", 0, NoBody, NoFiles, <<>>, d) : d \in Distances}
    \cup {NewReq("upload", id, NoBody, f, <<>>, 0) : id \in Ids, f \in UploadFiles}
    \cup {NewReq("list", 0, NoBody, NoFiles, q, 0) : q \in Queries}

\* identifiers a delete has answered 200 for
DeletedOK ==
    { reqs[j].id : j \in { k \in DOMAIN reqs :
                             /\ reqs[k].kind = "delete"
                             /\ reqs[k].res # <<>> } }

CreatesWaiting ==
    Cardinality({ k \in DOMAIN reqs :
                    reqs[k].kind = "create" /\ reqs[k].pc = "start" })

\* a request arrives and is dispatched to its handler
receive ==
    /\ serverUp
    /\ Len(reqs) < MaxReqs
    /\ \E q \in Requests :
         /\ q.kind = "create" => nextId + CreatesWaiting <= MaxId
         /\ reqs' = Append(reqs, [q EXCEPT !.seenDel =
                              IF q.kind = "get" THEN DeletedOK ELSE {}])
    /\ UNCHANGED <<store, nextId, files, serverUp>>

Init ==
    /\ store = [id \in {1} |-> [photo |-> DefaultPhoto, cost |-> 1, pos |-> 10]]
    /\ nextId = 2
    /\ files = {}
    /\ reqs = <<>>
    /\ serverUp = TRUE

Next ==
    \/ receive
    \/ \E i \in DOMAIN reqs : ListCount(i)
    \/ \E i \in DOMAIN reqs : ListFetch(i)
    \/ \E i \in DOMAIN reqs : getBootcamp(i)
    \/ \E i \in DOMAIN reqs : createBootcamp(i)
    \/ \E i \in DOMAIN reqs : updateBootcamp(i)
    \/ \E i \in DOMAIN reqs : deleteBootcamp(i)
    \/ \E i \in DOMAIN reqs : removeSettles(i)
    \/ \E i \in DOMAIN reqs : radiusGeocode(i)
    \/ \E i \in DOMAIN reqs : radiusFind(i)
    \/ \E i \in DOMAIN reqs : uploadFind(i)
    \/ \E i \in DOMAIN reqs : uploadMv(i)
    \/ \E i \in DOMAIN reqs : uploadUpdate(i)

Spec == Init /\ [][Next]_vars

\* ------------------------------------------------------------------------
\* The list handler alone, over every query and store of the sets below
\* ------------------------------------------------------------------------
PageValues ==
    { Absent, Some(<<>>), Some(<<"0">>), Some(<<"1">>), Some(<<"2">>),
      Some(<<"3">>), Some(<<"-", "1">>), Some(<<"x">>), Some(<<"2", "x">>) }

LimitValues ==
    { Absent, Some(<<"0">>), Some(<<"1">>), Some(<<"2">>),
      Some(<<"-", "1">>), Some(<<"x">>) }

sLt == <<"l", "t">>
sIn == <<"i", "n">>
sGt == <<"g", "t">>
sNe == <<"n", "e">>
fName == <<"n", "a", "m", "e">>

Filters ==
    { <<>>,
      << <<fCost, Nested(sGte, <<"2">>)>> >>,
      << <<fCost, Nested(sLt, <<"2">>)>> >>,
      << <<fCost, Nested(sIn, <<"1">>)>> >>,
      << <<fCost, Plain(<<"1">>)>> >>,
      << <<fCost, Nested(sNe, <<"1">>)>> >>,
      << <<fCost, Nested(sGt, <<"x">>)>> >>,
      << <<sIn, Nested(sGte, <<"1">>)>> >>,
      << <<fName, Plain(sIn)>> >>,
      << <<fCost, Nested(sGte, <<"1">>)>>, <<fName, Nested(sLt, <<"b">>)>> >> }

Shapes ==
    { <<Absent, Absent>>,
      <<Some(fCost), Absent>>,
      <<Some(<<"-">> \o fCost), Some(fCost)>>,
      <<Absent, Some(fCost \o <<",">> \o fPhoto)>> }

Param(k, o) == IF o.some THEN << <<k, Plain(o.val)>> >> ELSE <<>>

ListQueries ==
    { f \o Param(kSelect, sh[2]) \o Param(kSort, sh[1])
        \o Param(kPage, p) \o Param(kLimit, l) :
        f \in Filters, sh \in Shapes, p \in PageValues, l \in LimitValues }

Costs == {1, 2}

ListStores ==
    UNION { [1..n -> [photo : {DefaultPhoto}, cost : Costs, pos : {0}]] :
              n \in 0..MaxDocs }

InitList ==
    /\ store \in ListStores
    /\ nextId = Cardinality(DOMAIN store) + 1
    /\ files = {}
    /\ serverUp = TRUE
    /\ \E q \in ListQueries :
         reqs = <<NewReq("list", 0, NoBody, NoFiles, q, 0)>>

NextList ==
    \/ \E i \in DOMAIN reqs : ListCount(i)
    \/ \E i \in DOMAIN reqs : ListFetch(i)

SpecList == InitList /\ [][NextList]_vars

\* ------------------------------------------------------------------------
\* Properties
\* ------------------------------------------------------------------------
ListAnswered(i) == reqs[i].kind = "list" /\ reqs[i].res # <<>>

\* C1: in every list response, pagination.next is present iff
\* page*limit < total and pagination.prev is present iff (page-1)*limit > 0;
\* when present they are {page+1, limit} and {page-1, limit}.
C1_Pagination ==
    \A i \in DOMAIN reqs :
      ListAnswered(i) =>
        LET r == reqs[i]
            p == r.res[1].body.pagination
        IN /\ ("next" \in DOMAIN p) <=> (r.page * r.limit < r.total)
           /\ ("prev" \in DOMAIN p) <=> ((r.page - 1) * r.limit > 0)
           /\ "next" \in DOMAIN p =>
                p["next"] = [page |-> r.page + 1, limit |-> r.limit]
           /\ "prev" \in DOMAIN p =>
                p["prev"] = [page |-> r.page - 1, limit |-> r.limit]

\* a list response for a middle page (page 2 or later, positive limit,
\* records left beyond the window) that carries both descriptors
C1_Witness ==
    \E i \in DOMAIN reqs :
      /\ ListAnswered(i)
      /\ reqs[i].page >= 2 /\ reqs[i].limit >= 1
      /\ reqs[i].page * reqs[i].limit < reqs[i].total
      /\ DOMAIN reqs[i].res[1].body.pagination = {"next", "prev"}

\* C2: the total that decides pagination counts the records matching the
\* filter: whenever a list response (page and limit positive) carries
\* pagination.next, the same query at page+1 returns at least one record.
C2_NextPageNotEmpty ==
    \A i \in DOMAIN reqs :
      LET r == reqs[i]
      IN (/\ ListAnswered(i)
          /\ r.page >= 1 /\ r.limit >= 1
          /\ "next" \in DOMAIN r.res[1].body.pagination)
         => Len(ExecQuery(r.filter, r.sortBy, r.page * r.limit, r.limit,
                          r.fields)) >= 1

\* C3: whatever the page and limit parameters are, the page and limit the
\* list handler uses are positive, unparseable values become page 1 and
\* limit 100, and startIndex = (page-1)*limit is not negative.
C3_PositivePageAndLimit ==
    \A i \in DOMAIN reqs :
      LET r == reqs[i]
      IN (r.kind = "list" /\ r.pc # "start") =>
           /\ r.page >= 1 /\ r.limit >= 1
           /\ parseInt(Lookup(r.query, kPage)).nan => r.page = 1
           /\ parseInt(Lookup(r.query, kLimit)).nan => r.limit = 100
           /\ (r.page - 1) * r.limit >= 0

\* C8: a query key with a bracketed operator among gt, gte, lt, lte, in
\* becomes the comparison operator $gt, $gte, $lt, $lte, $in on that field
\* with the same value, and select, sort, page and limit are no key of the
\* filter handed to the persistence client.
C8_OperatorTranslation ==
    \A i \in DOMAIN reqs :
      LET r == reqs[i]
      IN (r.kind = "list" /\ r.pc # "start") =>
           /\ \A k \in 1..Len(r.query) :
                LET e == r.query[k]
                IN (e[1] \notin removeFields /\ e[2].nested
                      /\ e[2].op \in OpWords)
                   => \E m \in 1..Len(r.filter) :
                        /\ r.filter[m][1] = e[1]
                        /\ r.filter[m][2] = Nested(<<"$">> \o e[2].op, e[2].val)
           /\ \A m \in 1..Len(r.filter) : r.filter[m][1] \notin removeFields

IsImage(f) == f.attached = "file" /\ StartsWith(f.mimetype, mImage)

\* C4: an upload for an existing record with an image larger than
\* MAX_FILE_UPLOAD ends with a 400 error, without a call of file.mv and
\* without an update of the record.
C4_OversizeRejected ==
    \A i \in DOMAIN reqs :
      LET r == reqs[i]
      IN (/\ r.kind = "upload" /\ r.bootcamp.found
          /\ IsImage(r.file) /\ r.file.size > MAX_FILE_UPLOAD)
         => /\ r.pc = "done" /\ r.res = <<>>
            /\ Len(r.err) = 1 /\ r.err[1].statusCode = 400

\* the order of the checks of a rejected upload
C5_Order ==
    \A i \in DOMAIN reqs :
      LET r == reqs[i]
      IN (r.kind = "upload" /\ r.pc = "done" /\ r.bootcamp # Unset) =>
           /\ ~r.bootcamp.found =>
                r.res = <<>> /\ Len(r.err) = 1 /\ r.err[1].statusCode = 404
           /\ (r.bootcamp.found /\ r.file.attached = "none") =>
                /\ r.res = <<>>
                /\ r.err = <<ErrorResponse(<<"Please upload a file">>, 400)>>
           /\ (r.bootcamp.found /\ r.file.attached = "file"
                 /\ ~IsImage(r.file)) =>
                /\ r.res = <<>>
                /\ r.err = <<ErrorResponse(<<"Please upload an image">>, 400)>>

\* a step of an upload that rejects it changes no record, and a step of an
\* upload that changes a record comes after its storage write succeeded
C5_Step ==
    \A i \in DOMAIN reqs :
      (reqs[i].kind = "upload" /\ reqs'[i] # reqs[i]) =>
        /\ Len(reqs'[i].err) > Len(reqs[i].err) => store' = store
        /\ store' # store =>
             /\ reqs[i].pc = "update" /\ reqs[i].err = <<>>
             /\ reqs[i].fname \in files

\* C5: the photo field changes only after the storage write succeeded; a
\* rejected upload (record missing 404, no file 400, not an image 400,
\* storage failure 500) changes no record, and the checks come in that order.
C5_PhotoAfterStorage == []C5_Order /\ [][C5_Step]_vars

\* an upload rejected by a failed storage write, record and image present
C5_Witness ==
    \E i \in DOMAIN reqs :
      /\ reqs[i].kind = "upload" /\ reqs[i].pc = "done"
      /\ reqs[i].bootcamp.found /\ IsImage(reqs[i].file)
      /\ reqs[i].err = <<ErrorResponse(<<"Problem with file upload">>, 500)>>
      /\ reqs[i].id \in DOMAIN store
      /\ store[reqs[i].id].photo = DefaultPhoto

ByIdKinds == {"get", "update", "delete"}

IsNotFound(e, id) ==
    /\ e.statusCode = 404
    /\ \E k \in 1..Len(e.message) : e.message[k] = ToString(id)

C6_Step ==
    \A i \in DOMAIN reqs :
      (/\ reqs[i].kind \in ByIdKinds /\ reqs[i].pc = "start"
       /\ reqs[i].id \notin DOMAIN store
       /\ reqs'[i].bootcamp # Unset)
      => /\ store' = store
         /\ reqs'[i].res = <<>>
         /\ reqs'[i].pc = "done"
         /\ Len(reqs'[i].err) = 1
         /\ IsNotFound(reqs'[i].err[1], reqs[i].id)

\* C6: when getBootcamp, updateBootcamp or deleteBootcamp looks up an
\* identifier no record has, it forwards a 404 error whose message holds
\* the identifier, sends no response and leaves the store unchanged.
C6_NotFound == [][C6_Step]_vars

\* a get, update or delete of a missing identifier that has ended
C6_Witness ==
    \E i \in DOMAIN reqs :
      /\ reqs[i].kind \in ByIdKinds /\ reqs[i].pc = "done"
      /\ reqs[i].bootcamp = NoDoc
      /\ reqs[i].id \notin DOMAIN store
      /\ reqs[i].err # <<>>

\* C7: a handler that has ended sent exactly one response or forwarded
\* exactly one error, and none of its failures was an unhandled rejection.
C7_ExactlyOneOutcome ==
    \A i \in DOMAIN reqs :
      reqs[i].pc = "done" =>
        Len(reqs[i].res) + Len(reqs[i].err) = 1 /\ reqs[i].rej = 0

\* C9: every success response carries success = true and a data field.
C9_SuccessEnvelope ==
    \A i \in DOMAIN reqs :
      \A k \in 1..Len(reqs[i].res) :
        LET body == reqs[i].res[k].body
        IN /\ "success" \in DOMAIN body
           /\ body["success"] = TRUE
           /\ "data" \in DOMAIN body

\* C10: a getBootcamp issued after deleteBootcamp answered 200 for its
\* identifier does not find the record.
C10_DeleteTakesEffect ==
    \A i \in DOMAIN reqs :
      (reqs[i].kind = "get" /\ reqs[i].res # <<>>) =>
        reqs[i].id \notin reqs[i].seenDel

====
